---- MODULE Spec2Model ----
(***************************************************************************)
(* Model of fairfax_letter_finder.py: the rate-limited archive client      *)
(* (ArchiveAPIClient), the search aggregation and the document download    *)
(* loop of FairfaxLetterAgent.                                             *)
(*                                                                         *)
(* Strings whose content the code inspects (date strings, references) are  *)
(* sequences of one-character strings, so that Python's substring test     *)
(* `a in b` is computed, not assumed.  Time is an integer number of clock  *)
(* ticks, TicksPerSecond ticks to the second.                              *)
(***************************************************************************)
EXTENDS Integers, Sequences, FiniteSets, TLC

VARIABLES
  now,                \* the value time.time() would return
  last_request_time,  \* ArchiveAPIClient.last_request_time, per client
  last_http,          \* time of the client's latest HTTP request (NoRequest: none yet)
  calls,              \* number of client calls made so far, per client
  last_call,          \* the most recent client call and its outcome
  search_results,     \* FairfaxLetterAgent.search_results
  pc,                 \* position of the agent in its run
  qi,                 \* index of the next query variant of the current archive
  max_docs,           \* argument of download_documents
  prioritized_results,\* download_documents: sorted(self.search_results, key=...)
  ri,                 \* download_documents: position in prioritized_results
  ii,                 \* download_documents: position in image_urls
  images_downloaded,  \* download_documents: paths downloaded for this record
  download_count,     \* download_documents: download_count
  downloaded_docs,    \* download_documents: downloaded_docs
  entry,              \* who runs the agent: execute_full_search or a direct caller
  status,             \* how the run ended (None while it runs)
  text,               \* analyze_text: its argument
  analysis,           \* analyze_text: the dictionary it returns
  ocr_results,        \* FairfaxLetterAgent.ocr_results
  potential_letters   \* extract_letter_content: potential_letters

clientVars == <<now, last_request_time, last_http, calls, last_call>>
ocrVars == <<text, analysis, ocr_results, potential_letters>>
agentVars == <<search_results, pc, qi, max_docs, prioritized_results, ri, ii,
               images_downloaded, download_count, downloaded_docs, entry, status,
               text, analysis, ocr_results, potential_letters>>
vars == <<now, last_request_time, last_http, calls, last_call,
          search_results, pc, qi, max_docs, prioritized_results, ri, ii,
          images_downloaded, download_count, downloaded_docs, entry, status,
          text, analysis, ocr_results, potential_letters>>

\* Python's None where the other values are atomic strings or booleans
None == "None"
\* Python's None (JSON null) where the other values are character sequences
Null == <<"null">>
\* no HTTP request was sent yet, where the other values are times
NoRequest == -1
\* Python's None where the other values are client indices
NoClient == 0

(***************************************************************************)
(* Bounds of the model                                                     *)
(***************************************************************************)
TicksPerSecond == 2
MaxIdle == 2
MaxCalls == 2
MaxItems == 2
MaxRecords == 2
MaxSortLen == 3
MaxDocsArg == 1
MaxFragments == 3
MaxLines == 5
MaxOcrDocs == 3

(***************************************************************************)
(* Program constants                                                       *)
(***************************************************************************)
MAX_DOWNLOAD_RETRIES == 3
RATE_LIMIT_DELAY == 1
BACKOFF_FACTOR == 2
FULL_SEARCH_MAX_DOCS == 10
DEFAULT_MAX_DOCS == 5

Ticks(seconds) == seconds * TicksPerSecond

CHURCHILL == "Churchill Archives Centre"
LAC == "Library and Archives Canada"
TORONTO == "University of Toronto Archives"

ARCHIVE_ENDPOINTS ==
  [churchill |-> [search |-> "search", item |-> "archives/record",
                  collection |-> "archives/collection"],
   lac |-> [search |-> "record", item |-> "item"],
   toronto |-> [search |-> "index.php/informationobject/browse"]]

ARCHIVES ==
  << [name |-> CHURCHILL, endpoints |-> ARCHIVE_ENDPOINTS.churchill],
     [name |-> LAC, endpoints |-> ARCHIVE_ENDPOINTS.lac],
     [name |-> TORONTO, endpoints |-> ARCHIVE_ENDPOINTS.toronto] >>

\* self.api_clients = [ArchiveAPIClient(archive) for archive in ARCHIVES]
Clients == DOMAIN ARCHIVES

\* next((c for c in self.api_clients if c.name == name), None)
ClientByName(name) ==
  IF \E c \in Clients : ARCHIVES[c].name = name
  THEN CHOOSE c \in Clients :
         /\ ARCHIVES[c].name = name
         /\ \A b \in Clients : ARCHIVES[b].name = name => c <= b
  ELSE NoClient

(***************************************************************************)
(* Strings as character sequences                                          *)
(***************************************************************************)
S_1946 == <<"1","9","4","6">>
S_Oct == <<"O","c","t">>
S_Nov == <<"N","o","v">>
S_December == <<"D","e","c","e","m","b","e","r">>
S_Empty == <<>>
S_3Nov1946 == <<"3"," ","N","o","v"," ","1","9","4","6">>
S_1Jan1947 == <<"1"," ","J","a","n"," ","1","9","4","7">>
S_20Dec1946 == <<"2","0"," ","D","e","c"," ","1","9","4","6">>
S_5December1946 == <<"5"," ","D","e","c","e","m","b","e","r"," ","1","9","4","6">>
S_October1946 == <<"O","c","t","o","b","e","r"," ","1","9","4","6">>
S_Nov1945 == <<"N","o","v"," ","1","9","4","5">>
S_Unknown == <<"U","n","k","n","o","w","n">>
S_CHAR_slash_1 == <<"C","H","A","R","/","1">>
S_CHAR_under_1 == <<"C","H","A","R","_","1">>
S_MG30 == <<"M","G","3","0">>

\* Python: sub in s
Contains(sub, s) ==
  \E i \in 0..(Len(s) - Len(sub)) : SubSeq(s, i + 1, i + Len(sub)) = sub

(***************************************************************************)
(* ArchiveAPIClient                                                        *)
(***************************************************************************)
NoCall == [op |-> "none"]

\* a limiter that never waits
SleepTime_None(time_since_last) ==
  0

\* _rate_limit: the sleep it asks for, given time.time() - last_request_time
SleepTime(time_since_last) ==
  IF time_since_last < Ticks(RATE_LIMIT_DELAY)
  THEN Ticks(RATE_LIMIT_DELAY) - time_since_last
  ELSE 0

\* a limiter shared by the clients: it measures from the latest request made
\* through any of them
RateLimit_Shared(c) ==
  LET current_time == now
      latest == CHOOSE t \in {last_request_time[d] : d \in Clients} :
                  \A d \in Clients : last_request_time[d] <= t
      time_since_last == current_time - latest
  IN  current_time + SleepTime(time_since_last)

\* _rate_limit: the value stored in last_request_time.  The clock moves by
\* the sleep; any further passing of time is a Tick before the call.
RateLimit(c) ==
  LET current_time == now
      time_since_last == current_time - last_request_time[c]
  IN  current_time + SleepTime(time_since_last)

\* what the archive's server (or the network) answers to a search or item GET
TransportError == [transport_error |-> "RequestException"]

\* a search that forgets the empty result list in its error result
SearchResult_NoResults(resp) ==
  IF resp = TransportError
  THEN [error |-> "RequestException"]
  ELSE resp

\* search: the value returned for a response
SearchResult(resp) ==
  IF resp = TransportError
  THEN [error |-> "RequestException", results |-> <<>>]
  ELSE resp

\* get_document: the value returned for a response
DocumentResult(resp) ==
  IF resp = TransportError
  THEN [error |-> "RequestException"]
  ELSE resp

\* one download_document_image call is driven by a script: the first
\* `fails` attempts raise requests.RequestException, the next attempt ends as
\* `then` says (ok, or an OSError from os.makedirs or from open/write); the
\* scripts go one failure beyond MAX_DOWNLOAD_RETRIES
AttemptEnds == {"ok", "mkdir_error", "write_error"}
Scripts ==
  {s \in [fails : 0..(MAX_DOWNLOAD_RETRIES + 1), then : AttemptEnds] :
     s.fails >= MAX_DOWNLOAD_RETRIES => s.then = "ok"}
AttemptOutcome(script, attempt) ==
  IF attempt <= script.fails THEN "transport_error" ELSE script.then

\* a loop that allows one attempt too many
RetryAllowed_OneMore(retries) ==
  retries <= MAX_DOWNLOAD_RETRIES

\* download_document_image: the loop condition, while retries < MAX_DOWNLOAD_RETRIES
RetryAllowed(retries) ==
  retries < MAX_DOWNLOAD_RETRIES

\* download_document_image: the while loop, from `retries` at time t
RECURSIVE DownloadLoop(_, _, _, _)
DownloadLoop(retries, t, script, acc) ==
  IF RetryAllowed(retries)
  THEN LET outcome == AttemptOutcome(script, retries + 1)
           sent == [acc EXCEPT !.requests = Append(@, t)]
       IN  CASE outcome = "ok" ->
                  [sent EXCEPT !.value = TRUE, !.end = t]
             [] outcome = "transport_error" ->
                  LET r == retries + 1
                      wait_time == r * BACKOFF_FACTOR
                  IN  DownloadLoop(r, t + Ticks(wait_time), script,
                                   [sent EXCEPT !.waits = Append(@, wait_time)])
             [] OTHER ->
                  [sent EXCEPT !.raised = TRUE, !.end = t]
  ELSE [acc EXCEPT !.value = FALSE, !.end = t]

\* download_document_image, after _rate_limit returned at time t; a call
\* that raises returns no value: raised is then TRUE and value stays FALSE
DownloadDocumentImage(t, script) ==
  DownloadLoop(0, t, script,
               [raised |-> FALSE, value |-> FALSE, requests |-> <<>>,
                waits |-> <<>>, end |-> t])

\* how a call ended, in one word
Outcome(call) ==
  CASE call.op = "none" -> "none"
    [] call.raised -> "raised"
    [] call.op = "download_document_image" ->
         IF call.value THEN "ok" ELSE "error"
    [] OTHER -> IF "error" \in DOMAIN call.value THEN "error" ELSE "ok"

\* the call made before this one: its client and how it ended
Previous ==
  [client |-> IF last_call = NoCall THEN NoClient ELSE last_call.client,
   outcome |-> Outcome(last_call)]

\* the effect of client.search on the client
DoSearch(c, resp) ==
  LET t == RateLimit(c)
  IN  /\ now' = t
      /\ last_request_time' = [last_request_time EXCEPT ![c] = t]
      /\ last_http' = [last_http EXCEPT ![c] = t]
      /\ calls' = [calls EXCEPT ![c] = @ + 1]
      /\ last_call' = [op |-> "search", client |-> c, input |-> resp,
                       raised |-> FALSE, value |-> SearchResult(resp),
                       requests |-> <<t>>, waits |-> <<>>, end |-> t,
                       since |-> last_request_time[c], prev |-> Previous]

\* the effect of client.get_document on the client
DoGetDocument(c, resp) ==
  LET t == RateLimit(c)
      has_item == "item" \in DOMAIN ARCHIVES[c].endpoints
  IN  /\ now' = t
      /\ last_request_time' = [last_request_time EXCEPT ![c] = t]
      /\ last_http' = [last_http EXCEPT ![c] = IF has_item THEN t ELSE @]
      /\ calls' = [calls EXCEPT ![c] = @ + 1]
      /\ last_call' = [op |-> "get_document", client |-> c, input |-> resp,
                       raised |-> ~has_item,
                       value |-> IF has_item THEN DocumentResult(resp) ELSE None,
                       requests |-> IF has_item THEN <<t>> ELSE <<>>,
                       waits |-> <<>>, end |-> t,
                       since |-> last_request_time[c], prev |-> Previous]

\* the effect of client.download_document_image on the client
DoDownloadDocumentImage(c, script) ==
  LET t == RateLimit(c)
      run == DownloadDocumentImage(t, script)
  IN  /\ now' = run.end
      /\ last_request_time' = [last_request_time EXCEPT ![c] = t]
      /\ last_http' = [last_http EXCEPT ![c] = run.requests[Len(run.requests)]]
      /\ calls' = [calls EXCEPT ![c] = @ + 1]
      /\ last_call' = [op |-> "download_document_image", client |-> c,
                       input |-> script, raised |-> run.raised,
                       value |-> run.value, requests |-> run.requests,
                       waits |-> run.waits, end |-> run.end,
                       since |-> last_request_time[c], prev |-> Previous]

(***************************************************************************)
(* The client on its own: any sequence of calls on the three clients       *)
(***************************************************************************)
TotalCalls == calls[1] + calls[2] + calls[3]

\* JSON bodies a server answers to an item GET
DocumentBodies == {[id |-> 1, title |-> "Letter"], [error |-> "not found"]}

\* JSON bodies a server answers to a search, without items
EmptySearchBodies == {[results |-> <<>>], [error |-> "denied"], [message |-> "none"]}

InitClientVars ==
  /\ now = 0
  /\ last_request_time = [c \in Clients |-> 0]
  /\ last_http = [c \in Clients |-> NoRequest]
  /\ calls = [c \in Clients |-> 0]
  /\ last_call = NoCall

\* nothing was analysed, recognised or extracted yet
IdleOcrVars ==
  /\ text = <<>>
  /\ analysis = None
  /\ ocr_results = <<>>
  /\ potential_letters = <<>>

IdleAgentVars ==
  /\ IdleOcrVars
  /\ search_results = <<>>
  /\ qi = 0
  /\ max_docs = 0
  /\ prioritized_results = <<>>
  /\ ri = 0
  /\ ii = 0
  /\ images_downloaded = <<>>
  /\ download_count = 0
  /\ downloaded_docs = <<>>
  /\ entry = "client"
  /\ status = None

InitClient ==
  /\ InitClientVars
  /\ IdleAgentVars
  /\ pc = "client"

\* time passes between two calls
Tick ==
  /\ pc = "client"
  /\ now < (IF last_call = NoCall THEN 0 ELSE last_call.end) + MaxIdle
  /\ now' = now + 1
  /\ UNCHANGED <<last_request_time, last_http, calls, last_call>>
  /\ UNCHANGED agentVars

ClientSearch ==
  /\ pc = "client"
  /\ TotalCalls < MaxCalls
  /\ \E c \in Clients :
       \E resp \in {TransportError} \cup EmptySearchBodies : DoSearch(c, resp)
  /\ UNCHANGED agentVars

ClientGetDocument ==
  /\ pc = "client"
  /\ TotalCalls < MaxCalls
  /\ \E c \in Clients :
       \E resp \in {TransportError} \cup DocumentBodies : DoGetDocument(c, resp)
  /\ UNCHANGED agentVars

ClientDownloadDocumentImage ==
  /\ pc = "client"
  /\ TotalCalls < MaxCalls
  /\ \E c \in Clients :
       \E script \in Scripts : DoDownloadDocumentImage(c, script)
  /\ UNCHANGED agentVars

NextClient ==
  \/ Tick
  \/ ClientSearch
  \/ ClientGetDocument
  \/ ClientDownloadDocumentImage

SpecClient == InitClient /\ [][NextClient]_vars


(***************************************************************************)
(* FairfaxLetterAgent: search aggregation                                  *)
(***************************************************************************)
\* items of the archives' JSON responses; a key may be absent, and a key
\* may be present with the JSON value null (None)
Item_A ==
  [reference |-> S_CHAR_slash_1, title |-> "Letter to Churchill",
   date |-> S_3Nov1946, id |-> "a", images |-> <<"u1", "u2">>]
Item_B ==
  [title |-> "Note", date |-> S_20Dec1946, id |-> "b", images |-> <<"u3">>]
Item_C ==
  [reference |-> S_CHAR_under_1, id |-> "c", images |-> <<"u5">>]
Item_D ==
  [reference |-> S_MG30, title |-> "Memo", date |-> Null]
Items == {Item_A, Item_B, Item_C, Item_D}

\* sequences over S of length at most n
SeqUpTo(S, n) ==
  UNION {[1..k -> S] : k \in 0..n}

\* dict.get(key, default)
Get(dict, key, default) ==
  IF key \in DOMAIN dict THEN dict[key] ELSE default

\* a normalisation that leaves a missing reference blank
MakeRecord_BlankReference(archive, item) ==
  [archive |-> archive,
   reference |-> Get(item, "reference", S_Empty),
   title |-> Get(item, "title", "Untitled"),
   date |-> Get(item, "date", S_Empty),
   item_id |-> Get(item, "id", None),
   image_urls |-> Get(item, "images", <<>>)]

\* the record appended to search_results for one item of a response
MakeRecord(archive, item) ==
  [archive |-> archive,
   reference |-> Get(item, "reference", S_Unknown),
   title |-> Get(item, "title", "Untitled"),
   date |-> Get(item, "date", S_Empty),
   item_id |-> Get(item, "id", None),
   image_urls |-> Get(item, "images", <<>>)]

\* the records one query's result adds: for item in results.get("results", [])
RecordsOf(archive, results) ==
  LET items == Get(results, "results", <<>>)
  IN  [k \in 1..Len(items) |-> MakeRecord(archive, items[k])]

\* an aggregator that gives up on an archive's results once any earlier
\* call has failed
Aggregate_StopAfterFailure(archive, results) ==
  IF "error" \in DOMAIN results \/ Outcome(last_call) = "error"
  THEN <<>>
  ELSE RecordsOf(archive, results)

\* search_churchill_archives / search_canadian_archives: what one query
\* appends to search_results
Aggregate(archive, results) ==
  IF "error" \in DOMAIN results THEN <<>> ELSE RecordsOf(archive, results)

\* the responses the environment may give to a search (no item twice in
\* one response), keeping the accumulated list within MaxRecords
SearchResponses ==
  {TransportError} \cup EmptySearchBodies \cup
  {[results |-> items] :
     items \in {q \in SeqUpTo(Items, MaxItems) :
                  /\ Len(q) > 0
                  /\ Len(search_results) + Len(q) <= MaxRecords
                  /\ \A a, b \in 1..Len(q) : q[a] = q[b] => a = b}}

\* the archive searched by query variant q of search_canadian_archives
CanadianArchive(q) ==
  IF q <= 3 THEN LAC ELSE TORONTO

\* main: the values args.max_docs can take, --max-docs N or its default
ArgsMaxDocs == 1..DEFAULT_MAX_DOCS

\* main with --full: agent.execute_full_search() takes no argument, and
\* execute_full_search calls self.download_documents(max_docs=10)
ExecuteFullSearchMaxDocs(args_max_docs) ==
  FULL_SEARCH_MAX_DOCS

InitAgent ==
  /\ InitClientVars
  /\ search_results = <<>>
  /\ pc = "search_churchill_archives"
  /\ qi = 0
  /\ entry \in {"execute_full_search", "direct"}
  /\ max_docs \in IF entry = "execute_full_search"
                  THEN {ExecuteFullSearchMaxDocs(n) : n \in ArgsMaxDocs}
                  ELSE 0..MaxDocsArg
  /\ prioritized_results = <<>>
  /\ ri = 0
  /\ ii = 0
  /\ images_downloaded = <<>>
  /\ download_count = 0
  /\ downloaded_docs = <<>>
  /\ status = None
  /\ IdleOcrVars

SearchChurchillArchives ==
  /\ pc = "search_churchill_archives"
  /\ LET churchill_client == ClientByName(CHURCHILL)
     IN  IF churchill_client = NoClient
         THEN UNCHANGED <<clientVars, search_results>>
         ELSE \E resp \in SearchResponses :
                /\ DoSearch(churchill_client, resp)
                /\ search_results' =
                     search_results \o Aggregate(CHURCHILL, SearchResult(resp))
  /\ pc' = "search_canadian_archives"
  /\ qi' = 1
  /\ UNCHANGED ocrVars
  /\ UNCHANGED <<max_docs, prioritized_results, ri, ii, images_downloaded,
                 download_count, downloaded_docs, entry, status>>

\* one iteration of the query loops of search_canadian_archives; the last
\* one returns, and execute_full_search then tests search_results
SearchCanadianArchives ==
  /\ pc = "search_canadian_archives"
  /\ LET archive == CanadianArchive(qi)
         client == ClientByName(archive)
     IN  IF client = NoClient
         THEN UNCHANGED <<clientVars, search_results>>
         ELSE \E resp \in SearchResponses :
                /\ DoSearch(client, resp)
                /\ search_results' =
                     search_results \o Aggregate(archive, SearchResult(resp))
  /\ IF qi < 6
     THEN /\ qi' = qi + 1
          /\ pc' = pc
          /\ status' = status
     ELSE /\ qi' = 0
          /\ IF entry = "execute_full_search" /\ search_results' = <<>>
             THEN pc' = "done" /\ status' = "failure"
             ELSE pc' = "download_documents" /\ status' = status
  /\ UNCHANGED ocrVars
  /\ UNCHANGED <<max_docs, prioritized_results, ri, ii, images_downloaded,
                 download_count, downloaded_docs, entry>>

(***************************************************************************)
(* FairfaxLetterAgent.download_documents                                   *)
(***************************************************************************)
PRIORITY_MONTHS == {S_Oct, S_Nov, S_December}

\* the sort key of download_documents (the lambda)
PriorityKey(x) ==
  IF Contains(S_1946, x.date) /\ \E month \in PRIORITY_MONTHS : Contains(month, x.date)
  THEN 0
  ELSE 1

\* `"1946" in None` raises TypeError
PriorityKeyRaises(x) ==
  x.date = Null

\* a sort that is not stable: a later element with an equal key moves ahead
StaysAhead_Unstable(key_earlier, key_later) ==
  key_earlier < key_later

\* sorted(): an element stays ahead of a later one unless its key is greater
StaysAhead(key_earlier, key_later) ==
  key_earlier <= key_later

\* sorted(): insert index i into the sorted index list s, behind every
\* element whose key is not greater (Python's sort is stable)
RECURSIVE StableInsert(_, _, _)
StableInsert(i, s, keys) ==
  IF s = <<>>
  THEN <<i>>
  ELSE IF StaysAhead(keys[Head(s)], keys[i])
       THEN <<Head(s)>> \o StableInsert(i, Tail(s), keys)
       ELSE <<i>> \o s

\* sorted(): the first n indices, ordered by key
RECURSIVE SortedBy(_, _)
SortedBy(n, keys) ==
  IF n = 0 THEN <<>> ELSE StableInsert(n, SortedBy(n - 1, keys), keys)

\* a sort in place, self.search_results.sort(key=...)
SortedArgument_InPlace(results) ==
  LET order == SortedBy(Len(results),
                        [k \in 1..Len(results) |-> PriorityKey(results[k])])
  IN  [k \in 1..Len(order) |-> results[order[k]]]

\* sorted(self.search_results, key=...) returns a new list: the list it is
\* given is as before
SortedArgument(results) ==
  results

\* prioritized_results, as the list of positions in search_results
Prioritized(results) ==
  SortedBy(Len(results), [k \in 1..Len(results) |-> PriorityKey(results[k])])

\* str.replace("/", "_")
ReplaceSlash(s) ==
  [k \in 1..Len(s) |-> IF s[k] = "/" THEN "_" ELSE s[k]]

\* os.path.join(DOWNLOAD_DIR, f"{archive_name}_{doc_ref}")
DocFolder(result) ==
  <<result.archive, ReplaceSlash(result.reference)>>

\* os.path.join(doc_folder, f"page_{i+1}.jpg"), i counted from 0
OutputPath(result, i) ==
  [folder |-> DocFolder(result), page |-> i + 1]

\* a test that lets one document too many through
LimitReached_Late(count, limit) ==
  count > limit

\* the loop's test, if download_count >= max_docs: break
LimitReached(count, limit) ==
  count >= limit

\* the record the loop of download_documents is at
CurrentResult == search_results[prioritized_results[ri]]

\* download_documents, up to the loop: the sort
DownloadDocumentsBegin ==
  /\ pc = "download_documents"
  /\ IF \E k \in 1..Len(search_results) : PriorityKeyRaises(search_results[k])
     THEN /\ pc' = "done"
          /\ status' = "raised"
          /\ UNCHANGED <<prioritized_results, search_results>>
     ELSE /\ pc' = "download_loop"
          /\ status' = status
          /\ prioritized_results' = Prioritized(search_results)
          /\ search_results' = SortedArgument(search_results)
  /\ ri' = 1
  /\ download_count' = 0
  /\ downloaded_docs' = <<>>
  /\ UNCHANGED ocrVars
  /\ UNCHANGED <<clientVars, qi, max_docs, ii, images_downloaded, entry>>

\* os.makedirs(doc_folder, exist_ok=True) of download_documents: the folder
\* is there afterwards, or OSError is raised (a file stands at the path, the
\* name is too long, no permission)
MakedirsEnds == {"ok", "os_error"}

\* the head of one loop iteration, up to the image loop; leaving the loop
\* returns downloaded_docs, and execute_full_search then tests it
DownloadLoopHead ==
  /\ pc = "download_loop"
  /\ IF ri > Len(prioritized_results) \/ LimitReached(download_count, max_docs)
     THEN /\ IF entry = "execute_full_search" /\ downloaded_docs = <<>>
             THEN pc' = "done" /\ status' = "partial"
             ELSE pc' = "process_ocr" /\ status' = status
          /\ UNCHANGED <<ri, ii, images_downloaded>>
     ELSE LET result == CurrentResult
              client == ClientByName(result.archive)
          IN  IF client = NoClient \/ result.image_urls = <<>>
              THEN /\ ri' = ri + 1
                   /\ UNCHANGED <<pc, status, ii, images_downloaded>>
              ELSE \E makedirs \in MakedirsEnds :
                     IF result.reference = Null \/ makedirs = "os_error"
                     THEN /\ pc' = "done"
                          /\ status' = "raised"
                          /\ UNCHANGED <<ri, ii, images_downloaded>>
                     ELSE /\ pc' = "download_images"
                          /\ ii' = 0
                          /\ images_downloaded' = <<>>
                          /\ UNCHANGED <<ri, status>>
  /\ UNCHANGED ocrVars
  /\ UNCHANGED <<clientVars, search_results, qi, max_docs, prioritized_results,
                 download_count, downloaded_docs, entry>>

\* one iteration of the image loop; after the last image, the rest of the
\* record's iteration
DownloadImage ==
  /\ pc = "download_images"
  /\ LET result == CurrentResult
         client == ClientByName(result.archive)
         output_path == OutputPath(result, ii)
     IN  \E script \in Scripts :
           /\ DoDownloadDocumentImage(client, script)
           /\ IF last_call'.raised
              THEN /\ pc' = "done"
                   /\ status' = "raised"
                   /\ UNCHANGED <<ri, ii, images_downloaded, download_count,
                                  downloaded_docs>>
              ELSE LET success == last_call'.value
                       images == IF success
                                 THEN Append(images_downloaded, output_path)
                                 ELSE images_downloaded
                   IN  /\ status' = status
                       /\ IF ii + 1 < Len(result.image_urls)
                          THEN /\ ii' = ii + 1
                               /\ images_downloaded' = images
                               /\ UNCHANGED <<pc, ri, download_count, downloaded_docs>>
                          ELSE /\ ii' = 0
                               /\ images_downloaded' = <<>>
                               /\ pc' = "download_loop"
                               /\ ri' = ri + 1
                               /\ IF images # <<>>
                                  THEN /\ download_count' = download_count + 1
                                       /\ downloaded_docs' =
                                            Append(downloaded_docs,
                                                   [archive |-> result.archive,
                                                    reference |-> result.reference,
                                                    title |-> result.title,
                                                    date |-> result.date,
                                                    images |-> images])
                                  ELSE UNCHANGED <<download_count, downloaded_docs>>
  /\ UNCHANGED ocrVars
  /\ UNCHANGED <<search_results, qi, max_docs, prioritized_results, entry>>



(***************************************************************************)
(* download_documents' prioritization on its own: any accumulated list     *)
(***************************************************************************)
SortDates ==
  {S_3Nov1946, S_1Jan1947, S_20Dec1946, S_5December1946, S_October1946,
   S_Nov1945, S_Empty, Null}

InitSort ==
  /\ InitClientVars
  /\ search_results \in
       {[k \in 1..Len(dates) |-> MakeRecord(CHURCHILL, [date |-> dates[k]])] :
          dates \in SeqUpTo(SortDates, MaxSortLen)}
  /\ pc = "download_documents"
  /\ qi = 0
  /\ entry = "direct"
  /\ max_docs = 0
  /\ prioritized_results = <<>>
  /\ ri = 0
  /\ ii = 0
  /\ images_downloaded = <<>>
  /\ download_count = 0
  /\ downloaded_docs = <<>>
  /\ status = None
  /\ IdleOcrVars

NextSort ==
  DownloadDocumentsBegin

SpecSort == InitSort /\ [][NextSort]_vars

(***************************************************************************)
(* Properties                                                              *)
(***************************************************************************)
\* the date strings of the accumulated records, in accumulation order
AccumulatedDates ==
  [k \in 1..Len(search_results) |-> search_results[k].date]

\* the position in the prioritized order of the record accumulated k-th
PositionOf(k) ==
  CHOOSE p \in 1..Len(prioritized_results) : prioritized_results[p] = k

\* the date string contains "1946" and one of "Oct", "Nov", "December"
DateMatches(date) ==
  /\ Contains(S_1946, date)
  /\ Contains(S_Oct, date) \/ Contains(S_Nov, date) \/ Contains(S_December, date)

\* C1: with accumulated dates "3 Nov 1946", "1 Jan 1947", "20 Dec 1946", the
\* prioritized order puts "3 Nov 1946" first, then "20 Dec 1946", then
\* "1 Jan 1947".
C1_ExampleOrder ==
  (pc = "download_loop" /\ AccumulatedDates = <<S_3Nov1946, S_1Jan1947, S_20Dec1946>>)
    => /\ PositionOf(1) < PositionOf(3)
       /\ PositionOf(3) < PositionOf(2)

\* C2: the prioritized order is a stable partition of the accumulated list:
\* it holds every record once, no record that does not match stands before
\* one that matches, and two records of the same group keep their
\* accumulation order.
C2_StablePartition ==
  pc = "download_loop" =>
    LET p == prioritized_results
        n == Len(search_results)
    IN  /\ Len(p) = n
        /\ \A k \in 1..n : \E a \in 1..n : p[a] = k
        /\ \A a, b \in 1..n :
             a < b =>
               /\ DateMatches(search_results[p[b]].date)
                    => DateMatches(search_results[p[a]].date)
               /\ (DateMatches(search_results[p[a]].date)
                     = DateMatches(search_results[p[b]].date))
                    => p[a] < p[b]

\* C2 witness: three records were sorted, a matching one had to move ahead of
\* a non-matching one, and both groups hold records
C2_Witness ==
  /\ pc = "download_loop"
  /\ AccumulatedDates = <<S_1Jan1947, S_5December1946, S_3Nov1946>>
  /\ prioritized_results = <<2, 3, 1>>

\* C3: a download_document_image call whose every attempt fails with a
\* transport error makes exactly 3 attempts and returns False; a call whose
\* attempt k <= 3 is the first to succeed makes exactly k attempts and
\* returns True.
C3_RetryCount ==
  last_call.op = "download_document_image" =>
    LET script == last_call.input
    IN  /\ script.fails >= 3 =>
             /\ ~last_call.raised
             /\ last_call.value = FALSE
             /\ Len(last_call.requests) = 3
        /\ (script.fails < 3 /\ script.then = "ok") =>
             /\ ~last_call.raised
             /\ last_call.value = TRUE
             /\ Len(last_call.requests) = script.fails + 1

\* C3 witness: a call gave up after three failed attempts
C3_Witness ==
  /\ last_call.op = "download_document_image"
  /\ last_call.input.fails = 4
  /\ ~last_call.raised
  /\ last_call.value = FALSE
  /\ Len(last_call.requests) = 3

\* C4: on one client, the last_request_time of a call lies at least
\* RATE_LIMIT_DELAY after the last_request_time of the call before it,
\* however that earlier call ended.
C4_RateLimitSpacing ==
  [][\A c \in Clients :
       (calls[c] >= 1 /\ calls'[c] = calls[c] + 1)
         => last_request_time'[c] - last_request_time[c] >= 1 * TicksPerSecond]_vars

\* C4 witness: a second call came right after a call on the same client
\* that ended in an error, and was held back to exactly the minimum interval
C4_Witness ==
  /\ last_call.op # "none"
  /\ calls[last_call.client] = 2
  /\ last_call.prev.client = last_call.client
  /\ last_call.prev.outcome = "error"
  /\ last_request_time[last_call.client] - last_call.since = Ticks(RATE_LIMIT_DELAY)

\* C5: download_document_image returns a boolean and raises nothing,
\* whether the GET, the creation of the directory or the writing of the file
\* fails.
C5_DownloadNeverRaises ==
  last_call.op = "download_document_image" =>
    /\ ~last_call.raised
    /\ last_call.value \in BOOLEAN

\* C6: get_document on any of the three clients returns the document
\* metadata or an error-tagged result and raises nothing.
C6_GetDocumentNeverRaises ==
  last_call.op = "get_document" =>
    ~last_call.raised

\* a step in which a client.search call was made
SearchStep ==
  /\ TotalCalls' = TotalCalls + 1
  /\ last_call'.op = "search"

\* s is an initial part of t
IsPrefix(s, t) ==
  /\ Len(s) <= Len(t)
  /\ SubSeq(t, 1, Len(s)) = s

\* C7: a search whose request fails with a transport error returns, without
\* raising, a result with an "error" key and an empty "results" list, and
\* the aggregator adds no record to search_results for that query.
C7_SearchErrorIsWrapped ==
  [][(SearchStep /\ last_call'.input = TransportError) =>
       /\ ~last_call'.raised
       /\ "error" \in DOMAIN last_call'.value
       /\ "results" \in DOMAIN last_call'.value
       /\ last_call'.value["results"] = <<>>
       /\ search_results' = search_results
       /\ status' # "raised"]_vars

\* C7 witness: a query of the Canadian searches failed with a transport
\* error while records of earlier queries were held
C7_Witness ==
  /\ pc = "search_canadian_archives"
  /\ last_call.op = "search"
  /\ last_call.input = TransportError
  /\ last_call.value = [error |-> "RequestException", results |-> <<>>]
  /\ Len(search_results) > 0

\* C8: whatever queries fail, every item a succeeding query returns is
\* appended to search_results (and stays there), and no search step raises.
C8_IndependentFailures ==
  [][/\ IsPrefix(search_results, search_results')
     /\ SearchStep =>
          /\ ~last_call'.raised
          /\ status' # "raised"
          /\ LET body == last_call'.input
                 old == Len(search_results)
             IN  ("results" \in DOMAIN body /\ "error" \notin DOMAIN body) =>
                   /\ Len(search_results') = old + Len(body.results)
                   /\ \A k \in 1..Len(body.results) :
                        LET record == search_results'[old + k]
                            item == body.results[k]
                        IN  /\ record.archive = ARCHIVES[last_call'.client].name
                            /\ record.item_id = Get(item, "id", None)
                            /\ record.image_urls = Get(item, "images", <<>>)
                            /\ "reference" \in DOMAIN item
                                 => record.reference = item.reference]_vars

\* C8 witness: a query succeeded right after a failed query of another
\* archive, after which a further query failed, and the records of the
\* successful query are still held
C8_Witness ==
  /\ pc = "search_canadian_archives"
  /\ qi = 3
  /\ last_call.op = "search"
  /\ last_call.input = TransportError
  /\ last_call.prev.outcome = "ok"
  /\ calls[ClientByName(CHURCHILL)] = 1
  /\ Len(search_results) = 2
  /\ \A k \in 1..2 : search_results[k].archive = LAC

\* C9: once both searches have run, search_results holds no two records with
\* the same archive and the same reference.
C9_NoDuplicateRecords ==
  pc \in {"download_documents", "download_loop", "download_images", "process_ocr"} =>
    \A a, b \in 1..Len(search_results) :
      (/\ search_results[a].archive = search_results[b].archive
       /\ search_results[a].reference = search_results[b].reference) => a = b

\* the number of records the download loop has passed
Visited ==
  ri - 1

\* C10: download_documents yields at most max_docs documents, each with at
\* least one image that was downloaded successfully; a record without image
\* URLs or whose image downloads all fail adds no document and is not
\* counted; and no image download is attempted once max_docs documents exist.
C10_BoundedDownloads ==
  /\ [](/\ Len(downloaded_docs) <= max_docs
        /\ download_count = Len(downloaded_docs)
        /\ \A k \in 1..Len(downloaded_docs) : downloaded_docs[k].images # <<>>)
  /\ [][/\ (TotalCalls' = TotalCalls + 1 /\ last_call'.op = "download_document_image")
             => /\ download_count < max_docs
                /\ Len(downloaded_docs) < max_docs
        /\ (pc = "download_images" /\ images_downloaded' # images_downloaded
              /\ pc' = "download_images")
             => /\ ~last_call'.raised
                /\ last_call'.value = TRUE
        /\ Len(downloaded_docs') > Len(downloaded_docs)
             => /\ pc = "download_images"
                /\ Len(downloaded_docs') = Len(downloaded_docs) + 1
                /\ images_downloaded # <<>> \/ last_call'.value = TRUE
        /\ (pc = "download_loop" /\ ri' = ri + 1)
             => /\ CurrentResult.image_urls = <<>>
                /\ downloaded_docs' = downloaded_docs
                /\ download_count' = download_count
        /\ (pc = "download_images" /\ ri' = ri + 1 /\ images_downloaded = <<>>
              /\ last_call'.value = FALSE)
             => /\ downloaded_docs' = downloaded_docs
                /\ download_count' = download_count]_vars

\* C10 witness: with max_docs = 1, the first record's only image failed on
\* every attempt and produced nothing, the second record produced the one
\* document allowed, and the loop was left
C10_Witness ==
  /\ pc = "process_ocr"
  /\ max_docs = 1
  /\ Len(search_results) = 2
  /\ Visited = 2
  /\ download_count = 1
  /\ Len(downloaded_docs) = 1
  /\ downloaded_docs[1].reference = search_results[prioritized_results[2]].reference
  /\ search_results[prioritized_results[1]].image_urls # <<>>
  /\ search_results[prioritized_results[1]].reference
       # search_results[prioritized_results[2]].reference

\* C11: no two documents returned by one download_documents call have the
\* same destination directory.
C11_DistinctFolders ==
  \A a, b \in 1..Len(downloaded_docs) :
    DocFolder(downloaded_docs[a]) = DocFolder(downloaded_docs[b]) => a = b

(***************************************************************************)
(* OCRProcessor.analyze_text: the regular expressions, computed character  *)
(* by character over text of the code points 0 to 255                      *)
(***************************************************************************)
SCORE_MENTION == 10
SCORE_DATE == 30
TARGET_YEAR == 1946
TARGET_FIRST_MONTH == 10
LIKELY_MIN_SCORE == 20

UpperCase == <<"A", "B", "C", "D", "E", "F", "G", "H", "I", "J", "K", "L",
  "M", "N", "O", "P", "Q", "R", "S", "T", "U", "V", "W", "X", "Y", "Z">>
LowerCase == <<"a", "b", "c", "d", "e", "f", "g", "h", "i", "j", "k", "l",
  "m", "n", "o", "p", "q", "r", "s", "t", "u", "v", "w", "x", "y", "z">>
Digits == <<"0", "1", "2", "3", "4", "5", "6", "7", "8", "9">>

\* the folding re.IGNORECASE applies to one character, where it can reach an
\* ASCII letter of a pattern (no character of codes 128 to 255 folds to one)
Lower(c) ==
  IF \E k \in 1..26 : UpperCase[k] = c
  THEN LowerCase[CHOOSE k \in 1..26 : UpperCase[k] = c]
  ELSE c

\* \d and [0-9]
IsDigit(c) == \E k \in 1..10 : Digits[k] = c

\* the characters beyond ASCII that \w matches in a str pattern (letters and
\* numeric characters of Unicode), among the code points 0 to 255 a string
\* of the model can hold
Latin1WordChars ==
  {"ª", "²", "³", "µ", "¹", "º", "¼", "½", "¾", "À", "Á", "Â",
   "Ã", "Ä", "Å", "Æ", "Ç", "È", "É", "Ê", "Ë", "Ì", "Í", "Î",
   "Ï", "Ð", "Ñ", "Ò", "Ó", "Ô", "Õ", "Ö", "Ø", "Ù", "Ú", "Û",
   "Ü", "Ý", "Þ", "ß", "à", "á", "â", "ã", "ä", "å", "æ", "ç",
   "è", "é", "ê", "ë", "ì", "í", "î", "ï", "ð", "ñ", "ò", "ó",
   "ô", "õ", "ö", "ø", "ù", "ú", "û", "ü", "ý", "þ", "ÿ"}

\* \w
IsWordChar(c) ==
  \/ IsDigit(c)
  \/ c = "_"
  \/ \E k \in 1..26 : c = UpperCase[k] \/ c = LowerCase[k]
  \/ c \in Latin1WordChars

\* \s, and what str.strip() removes: space, \t, \n, \r, \f, the vertical tab
\* (code 11), the separators of codes 28 to 31, NEL (133) and the no-break
\* space (160)
IsSpace(c) ==
  c \in {" ", "\t", "\n", "\r", "\f", "", "", "", "", "", "", " "}

\* int() of a string of digits
RECURSIVE ToInt(_)
ToInt(s) ==
  IF Len(s) = 0 THEN 0
  ELSE 10 * ToInt(SubSeq(s, 1, Len(s) - 1))
       + (CHOOSE k \in 1..10 : Digits[k] = s[Len(s)]) - 1

\* the elements of a pattern: \b, \s+, \d, \d{1,2}, \w+ and literal
\* characters
WB == "\\b"
SP == "\\s+"
DG == "\\d"
D12 == "\\d{1,2}"
WD == "\\w+"

\* r'\bchurchill\b', r'\bwinston\b', r'\bprime\s+minister\b'
churchill_patterns ==
  <<<<WB, "c", "h", "u", "r", "c", "h", "i", "l", "l", WB>>,
    <<WB, "w", "i", "n", "s", "t", "o", "n", WB>>,
    <<WB, "p", "r", "i", "m", "e", SP, "m", "i", "n", "i", "s", "t", "e", "r", WB>>>>
\* r'\bfairfax\b', r'\bbryan\b', r'\bcolonel\b'
fairfax_patterns ==
  <<<<WB, "f", "a", "i", "r", "f", "a", "x", WB>>,
    <<WB, "b", "r", "y", "a", "n", WB>>,
    <<WB, "c", "o", "l", "o", "n", "e", "l", WB>>>>

\* \b after the first p characters of s
WordBoundary(s, p) ==
  (p >= 1 /\ IsWordChar(s[p])) # (p < Len(s) /\ IsWordChar(s[p + 1]))

\* the elements k.. of pattern match s from its character p + 1 on
RECURSIVE MatchesFrom(_, _, _, _)
MatchesFrom(pattern, k, s, p) ==
  IF k > Len(pattern) THEN TRUE
  ELSE IF pattern[k] = WB
       THEN WordBoundary(s, p) /\ MatchesFrom(pattern, k + 1, s, p)
  ELSE IF pattern[k] = SP
       THEN \E n \in 1..(Len(s) - p) :
              /\ \A m \in 1..n : IsSpace(s[p + m])
              /\ MatchesFrom(pattern, k + 1, s, p + n)
  ELSE IF pattern[k] = WD
       THEN \E n \in 1..(Len(s) - p) :
              /\ \A m \in 1..n : IsWordChar(s[p + m])
              /\ MatchesFrom(pattern, k + 1, s, p + n)
  ELSE IF pattern[k] = D12
       THEN \E n \in 1..2 :
              /\ p + n <= Len(s)
              /\ \A m \in 1..n : IsDigit(s[p + m])
              /\ MatchesFrom(pattern, k + 1, s, p + n)
  ELSE IF pattern[k] = DG
       THEN /\ p < Len(s)
            /\ IsDigit(s[p + 1])
            /\ MatchesFrom(pattern, k + 1, s, p + 1)
  ELSE /\ p < Len(s)
       /\ Lower(s[p + 1]) = Lower(pattern[k])
       /\ MatchesFrom(pattern, k + 1, s, p + 1)

\* re.search(pattern, text, re.IGNORECASE) found a match; for a pattern
\* without letters also re.search(pattern, text)
Search(pattern, s) ==
  \E p \in 0..Len(s) : MatchesFrom(pattern, 1, s, p)

MONTHS ==
  <<<<"J", "a", "n", "u", "a", "r", "y">>,
    <<"F", "e", "b", "r", "u", "a", "r", "y">>,
    <<"M", "a", "r", "c", "h">>,
    <<"A", "p", "r", "i", "l">>,
    <<"M", "a", "y">>,
    <<"J", "u", "n", "e">>,
    <<"J", "u", "l", "y">>,
    <<"A", "u", "g", "u", "s", "t">>,
    <<"S", "e", "p", "t", "e", "m", "b", "e", "r">>,
    <<"O", "c", "t", "o", "b", "e", "r">>,
    <<"N", "o", "v", "e", "m", "b", "e", "r">>,
    <<"D", "e", "c", "e", "m", "b", "e", "r">>>>

\* month_mapping.get(month, 0)
month_mapping(month) ==
  IF \E k \in 1..12 : MONTHS[k] = month
  THEN CHOOSE k \in 1..12 : MONTHS[k] = month
  ELSE 0

\* s has the literal word at its characters p + 1 .. p + Len(word)
LiteralAt(word, s, p) ==
  /\ p + Len(word) <= Len(s)
  /\ \A m \in 1..Len(word) : s[p + m] = word[m]

\* the position after the longest run of whitespace that starts at p + 1
\* (p itself when that character is not whitespace)
RECURSIVE SkipSpaces(_, _)
SkipSpaces(s, p) ==
  IF p < Len(s) /\ IsSpace(s[p + 1]) THEN SkipSpaces(s, p + 1) ELSE p

\* 19[0-9]{2} at the characters p + 1 .. p + 4 of s
YearAt(s, p) ==
  /\ p + 4 <= Len(s)
  /\ s[p + 1] = "1"
  /\ s[p + 2] = "9"
  /\ IsDigit(s[p + 3])
  /\ IsDigit(s[p + 4])

\* date_pattern tried at position p with a day of n digits: the set of its
\* matches there (empty or one match), as the three groups and the end
\* position.  After each \s+ the pattern goes on with a letter or a digit,
\* so only the longest run of whitespace can lead to a match.
DateMatchesAt(s, p, n) ==
  LET a == SkipSpaces(s, p + n)
  IN  IF ~(/\ p + n <= Len(s)
           /\ \A m \in 1..n : IsDigit(s[p + m])
           /\ a > p + n)
      THEN {}
      ELSE {[day |-> SubSeq(s, p + 1, p + n),
             month |-> MONTHS[k],
             year |-> LET b == SkipSpaces(s, a + Len(MONTHS[k]))
                      IN  SubSeq(s, b + 1, b + 4),
             end |-> SkipSpaces(s, a + Len(MONTHS[k])) + 4] :
              k \in {k \in 1..12 :
                       /\ LiteralAt(MONTHS[k], s, a)
                       /\ SkipSpaces(s, a + Len(MONTHS[k])) > a + Len(MONTHS[k])
                       /\ YearAt(s, SkipSpaces(s, a + Len(MONTHS[k])))}}

\* a match of date_pattern starts after the first q characters of s
DateStartsAt(s, q) ==
  DateMatchesAt(s, q, 1) # {} \/ DateMatchesAt(s, q, 2) # {}

\* re.findall(date_pattern, text) from position p on: the scan goes to the
\* leftmost position a match starts at, takes the match there (\d{1,2} is
\* greedy, two digits are tried first) and goes on behind it
RECURSIVE FindAllDates(_, _)
FindAllDates(s, p) ==
  LET starts == {q \in p..(Len(s) - 1) : DateStartsAt(s, q)}
  IN  IF starts = {} THEN <<>>
      ELSE LET q == CHOOSE q \in starts : \A r \in starts : q <= r
               two == DateMatchesAt(s, q, 2)
               one == DateMatchesAt(s, q, 1)
               m == IF two # {} THEN CHOOSE m \in two : TRUE
                    ELSE CHOOSE m \in one : TRUE
           IN  <<m>> \o FindAllDates(s, m.end)

\* the number of points the `for pattern in patterns` loop adds: it stops at
\* the first pattern that matches
MentionScore_EveryPattern(patterns, s) ==
  SCORE_MENTION * Cardinality({k \in 1..Len(patterns) : Search(patterns[k], s)})
MentionScore(patterns, s) ==
  IF \E k \in 1..Len(patterns) : Search(patterns[k], s)
  THEN SCORE_MENTION ELSE 0

\* which of the matches findall returned is parsed: date_matches[0]
ParsedMatch_Last(date_matches) == date_matches[Len(date_matches)]
ParsedMatch(date_matches) == date_matches[1]

\* int(year) == 1946 and month_mapping.get(month, 0) >= 10
InTargetRange_DecemberOnly(m) ==
  ToInt(m.year) = TARGET_YEAR /\ month_mapping(m.month) >= 12
InTargetRange(m) ==
  ToInt(m.year) = TARGET_YEAR /\ month_mapping(m.month) >= TARGET_FIRST_MONTH

\* the test that sets likely_correspondence
IsLikely_WithoutFairfax(mentions_churchill, mentions_fairfax, score) ==
  mentions_churchill /\ score >= LIKELY_MIN_SCORE
IsLikely(mentions_churchill, mentions_fairfax, score) ==
  mentions_churchill /\ mentions_fairfax /\ score >= LIKELY_MIN_SCORE

analyze_text(s) ==
  LET churchill == MentionScore(churchill_patterns, s)
      fairfax == MentionScore(fairfax_patterns, s)
      date_matches == FindAllDates(s, 0)
      found == date_matches # <<>>
      m == ParsedMatch(date_matches)
      bonus == IF found /\ InTargetRange(m) THEN SCORE_DATE ELSE 0
      score == churchill + fairfax + bonus
  IN  [mentions_churchill |-> churchill > 0,
       mentions_fairfax |-> fairfax > 0,
       date_found |-> IF found
                      THEN m.day \o <<" ">> \o m.month \o <<" ">> \o m.year
                      ELSE Null,
       relevance_score |-> score,
       likely_correspondence |-> IsLikely(churchill > 0, fairfax > 0, score)]

(***************************************************************************)
(* analyze_text on its own: any text made of a few of these fragments      *)
(***************************************************************************)
T_WINSTON == <<"W", "I", "N", "S", "T", "O", "N">>
T_15November1946 == <<"1", "5", " ", "N", "o", "v", "e", "m", "b", "e",
  "r", " ", "1", "9", "4", "6">>
T_25December1947 == <<"2", "5", " ", "D", "e", "c", "e", "m", "b", "e",
  "r", " ", "1", "9", "4", "7">>
Fragments ==
  {T_WINSTON, T_15November1946, T_25December1947,
   \* "Churchill", "Churchills"
   <<"C", "h", "u", "r", "c", "h", "i", "l", "l">>,
   <<"C", "h", "u", "r", "c", "h", "i", "l", "l", "s">>,
   \* "Prime \nMinister"
   <<"P", "r", "i", "m", "e", " ", "\n", "M", "i", "n", "i", "s", "t", "e", "r">>,
   \* "Colonel Fairfax,", "bryan"
   <<"C", "o", "l", "o", "n", "e", "l", " ", "F", "a", "i", "r", "f", "a", "x", ",">>,
   <<"b", "r", "y", "a", "n">>,
   \* "30 September 1946"
   <<"3", "0", " ", "S", "e", "p", "t", "e", "m", "b", "e", "r", " ", "1", "9", "4", "6">>,
   \* "2  October\n19467"
   <<"2", " ", " ", "O", "c", "t", "o", "b", "e", "r", "\n", "1", "9", "4", "6", "7">>}

\* " ".join(fragments)
RECURSIVE JoinWith(_, _)
JoinWith(sep, parts) ==
  IF Len(parts) = 0 THEN <<>>
  ELSE IF Len(parts) = 1 THEN parts[1]
  ELSE parts[1] \o sep \o JoinWith(sep, Tail(parts))

Texts == {JoinWith(<<" ">>, parts) : parts \in SeqUpTo(Fragments, MaxFragments)}

InitAnalyze ==
  /\ InitClientVars
  /\ search_results = <<>>
  /\ pc = "analyze_text"
  /\ qi = 0
  /\ entry = "analyze_text"
  /\ max_docs = 0
  /\ prioritized_results = <<>>
  /\ ri = 0
  /\ ii = 0
  /\ images_downloaded = <<>>
  /\ download_count = 0
  /\ downloaded_docs = <<>>
  /\ status = None
  /\ text \in Texts
  /\ analysis = None
  /\ ocr_results = <<>>
  /\ potential_letters = <<>>

AnalyzeText ==
  /\ pc = "analyze_text"
  /\ analysis' = analyze_text(text)
  /\ pc' = "done"
  /\ UNCHANGED <<clientVars, search_results, qi, max_docs, prioritized_results,
                 ri, ii, images_downloaded, download_count, downloaded_docs,
                 entry, status, text, ocr_results, potential_letters>>

NextAnalyze ==
  AnalyzeText

SpecAnalyze == InitAnalyze /\ [][NextAnalyze]_vars

(***************************************************************************)
(* Properties of analyze_text                                              *)
(***************************************************************************)
\* analyze_text has returned
Analyzed == entry = "analyze_text" /\ pc = "done"

\* some pattern of the list matches the text
AnyMatch(patterns, s) == \E k \in 1..Len(patterns) : Search(patterns[k], s)

HasDate(s) == \E q \in 0..Len(s) : DateStartsAt(s, q)

\* where the first "D Month YYYY" match of s starts
FirstDatePos(s) ==
  CHOOSE q \in 0..Len(s) :
    DateStartsAt(s, q) /\ \A r \in 0..(q - 1) : ~DateStartsAt(s, r)

\* the text from position q on reads: one or two digits, whitespace,
\* October, November or December, whitespace, 1946
TargetDateAt(s, q) ==
  \E n \in 1..2, month \in {MONTHS[10], MONTHS[11], MONTHS[12]} :
    LET a == SkipSpaces(s, q + n)
        b == SkipSpaces(s, a + Len(month))
    IN  /\ q + n <= Len(s)
        /\ \A m \in 1..n : IsDigit(s[q + m])
        /\ a > q + n
        /\ LiteralAt(month, s, a)
        /\ b > a + Len(month)
        /\ LiteralAt(S_1946, s, b)

\* the score holds the date bonus: the two mentions add 20 at most
HasBonus(a) == a.relevance_score >= SCORE_DATE

\* C12: likely_correspondence is true exactly when both mentions are true
\* and relevance_score >= 20; a text matching a Churchill pattern and a
\* Fairfax pattern has relevance_score >= 20 and is likely correspondence;
\* likely_correspondence implies relevance_score >= 20.
C12_LikelyCorrespondence ==
  Analyzed =>
    /\ analysis.likely_correspondence
         <=> (/\ analysis.mentions_churchill
              /\ analysis.mentions_fairfax
              /\ analysis.relevance_score >= LIKELY_MIN_SCORE)
    /\ (AnyMatch(churchill_patterns, text) /\ AnyMatch(fairfax_patterns, text))
         => (/\ analysis.relevance_score >= LIKELY_MIN_SCORE
             /\ analysis.likely_correspondence)
    /\ analysis.likely_correspondence
         => analysis.relevance_score >= LIKELY_MIN_SCORE

\* a Churchill word, a date in range and no Fairfax word: score 40, and not
\* likely correspondence
C12_Witness ==
  /\ Analyzed
  /\ Contains(T_WINSTON, text)
  /\ Contains(T_15November1946, text)
  /\ ~AnyMatch(fairfax_patterns, text)
  /\ analysis.relevance_score = 40
  /\ ~analysis.likely_correspondence

\* C13 as stated: every text containing "15 November 1946" has the +30 date
\* bonus in its score, wherever the date stands and whatever other dates
\* the text contains.
C13_BonusWhereverTheDateStands ==
  Analyzed /\ Contains(T_15November1946, text) => HasBonus(analysis)

\* C13 amended: every text containing "15 November 1946" with no
\* "D Month YYYY" date starting before it has the +30 date bonus in its
\* score, whatever follows the date.
C13_BonusWhenFirstDate ==
  Analyzed =>
    \A p \in 0..Len(text) :
      (/\ LiteralAt(T_15November1946, text, p)
       /\ \A q \in 0..(p - 1) : ~DateStartsAt(text, q))
      => HasBonus(analysis)

\* the date stands after a word and before another date, and the bonus is
\* in the score
C13_Witness ==
  /\ Analyzed
  /\ \E p \in 1..Len(text) :
       /\ LiteralAt(T_15November1946, text, p)
       /\ \A q \in 0..(p - 1) : ~DateStartsAt(text, q)
       /\ \E q \in (p + 1)..Len(text) : LiteralAt(T_25December1947, text, q)
  /\ HasBonus(analysis)

\* C14: the date bonus depends on the first "D Month YYYY" match only: it
\* is added exactly when that match has year 1946 and month October,
\* November or December, whatever matches follow; a text without a match
\* gets no bonus and no date_found.
C14_FirstMatchDecides ==
  Analyzed =>
    /\ HasBonus(analysis)
         <=> (HasDate(text) /\ TargetDateAt(text, FirstDatePos(text)))
    /\ ~HasDate(text) => analysis.date_found = Null
    /\ HasDate(text) => analysis.date_found # Null

\* the first date is out of range, a date in range follows, no bonus
C14_Witness ==
  /\ Analyzed
  /\ HasDate(text)
  /\ ~TargetDateAt(text, FirstDatePos(text))
  /\ \E q \in (FirstDatePos(text) + 1)..Len(text) : TargetDateAt(text, q)
  /\ ~HasBonus(analysis)
  /\ analysis.date_found # Null

\* 1 if the condition holds, else 0
Indicator(b) == IF b THEN 1 ELSE 0

\* C15: relevance_score is 10 if any Churchill pattern matches, plus 10 if
\* any Fairfax pattern matches, plus 30 if the date bonus applies; several
\* patterns of one entity add 10 only; the score is one of 0, 10, 20, 30,
\* 40, 50.
C15_ScoreDecomposition ==
  Analyzed =>
    /\ analysis.relevance_score =
         10 * Indicator(AnyMatch(churchill_patterns, text))
         + 10 * Indicator(AnyMatch(fairfax_patterns, text))
         + 30 * Indicator(HasDate(text)
                          /\ TargetDateAt(text, FirstDatePos(text)))
    /\ analysis.relevance_score \in {0, 10, 20, 30, 40, 50}

\* two Churchill patterns and two Fairfax patterns match, the score is 20
C15_Witness ==
  /\ Analyzed
  /\ Search(churchill_patterns[1], text)
  /\ Search(churchill_patterns[3], text)
  /\ Search(fairfax_patterns[1], text)
  /\ Search(fairfax_patterns[3], text)
  /\ analysis.relevance_score = 20

(***************************************************************************)
(* process_ocr and extract_letter_content                                  *)
(***************************************************************************)
MIN_LETTER_FIELDS == 2

S_OcrUnavailable ==
  <<"[", "O", "C", "R", " ", "U", "N", "A", "V", "A",
  "I", "L", "A", "B", "L", "E", " ", "-", " ", "I", "N", "S", "T", "A",
  "L", "L", " ", "R", "E", "Q", "U", "I", "R", "E", "D", " ", "D", "E",
  "P", "E", "N", "D", "E", "N", "C", "I", "E", "S", "]">>
S_Dear == <<"D", "e", "a", "r">>
S_Sincerely == <<"S", "i", "n", "c", "e", "r", "e", "l", "y">>
S_Yours == <<"Y", "o", "u", "r", "s">>

\* r'\d{1,2}\s+\w+\s+19\d{2}'
P_line_date == <<D12, SP, WD, SP, "1", "9", DG, DG>>

\* doc_results["analysis"] of a document without pages
NoAnalysis == [none |-> TRUE]

\* what process_image can return for the images at the given paths: the
\* marker for every image when OCR is not available, else for each image
\* the text read from it ("" after an exception)
OcrOutcomes(paths, readable) ==
  {[p \in paths |-> S_OcrUnavailable]} \cup [paths -> readable \cup {S_Empty}]

\* the paths of the images of the downloaded documents
ImagePaths(docs) ==
  UNION {{docs[k].images[i] : i \in 1..Len(docs[k].images)} :
           k \in 1..Len(docs)}

\* process_ocr: the doc_results of one downloaded document
DocResults(doc, reads) ==
  LET all_text == [i \in 1..Len(doc.images) |-> reads[doc.images[i]]]
  IN  [archive |-> doc.archive,
       reference |-> doc.reference,
       title |-> doc.title,
       date |-> doc.date,
       pages |-> [i \in 1..Len(doc.images) |->
                    [image_path |-> doc.images[i], text |-> all_text[i]]],
       analysis |-> IF all_text = <<>>
                    THEN NoAnalysis
                    ELSE analyze_text(JoinWith(<<"\n", "\n">>, all_text))]

process_ocr(docs, reads) ==
  [k \in 1..Len(docs) |-> DocResults(docs[k], reads)]

\* str.split("\n")
RECURSIVE SplitLines(_)
SplitLines(s) ==
  IF \E k \in 1..Len(s) : s[k] = "\n"
  THEN LET k == CHOOSE k \in 1..Len(s) :
                  s[k] = "\n" /\ \A j \in 1..(k - 1) : s[j] # "\n"
       IN  <<SubSeq(s, 1, k - 1)>> \o SplitLines(SubSeq(s, k + 1, Len(s)))
  ELSE <<s>>

\* str.strip()
Strip(s) ==
  IF \A k \in 1..Len(s) : IsSpace(s[k])
  THEN <<>>
  ELSE LET first == CHOOSE k \in 1..Len(s) :
                      ~IsSpace(s[k]) /\ \A j \in 1..(k - 1) : IsSpace(s[j])
           last == CHOOSE k \in 1..Len(s) :
                     ~IsSpace(s[k]) /\ \A j \in (k + 1)..Len(s) : IsSpace(s[j])
       IN  SubSeq(s, first, last)

\* in_body once the signature line was taken: in_body = False
InBodyAfterSignature_Still == TRUE
InBodyAfterSignature == FALSE

\* the state of the loop over the lines: the three fields a line can fill
\* (Null while unset), in_body and body_lines
ScanStart ==
  [date |-> Null, salutation |-> Null, signature |-> Null,
   in_body |-> FALSE, body_lines |-> <<>>]

\* a test that lets a later line overwrite the field
FieldUnset_Ignored(value) ==
  TRUE

\* the test `not letter_content.get(key)`; the value of a key that was set
\* is a non-empty line
FieldUnset(value) ==
  value = Null

\* one turn of `for line in lines`; the date test comes first, then the
\* salutation, then the signature, then the body
ScanStep(st, raw) ==
  LET line == Strip(raw)
  IN  IF line = <<>> THEN st
      ELSE IF FieldUnset(st.date) /\ Search(P_line_date, line)
           THEN [st EXCEPT !.date = line]
      ELSE IF FieldUnset(st.salutation) /\ LiteralAt(S_Dear, line, 0)
           THEN [st EXCEPT !.salutation = line, !.in_body = TRUE]
      ELSE IF st.in_body
              /\ (Contains(S_Sincerely, line) \/ Contains(S_Yours, line))
           THEN [st EXCEPT !.signature = line,
                           !.in_body = InBodyAfterSignature]
      ELSE IF st.in_body
           THEN [st EXCEPT !.body_lines = Append(@, line)]
      ELSE st

\* the loop over the first n lines
RECURSIVE Scan(_, _)
Scan(lines, n) ==
  IF n = 0 THEN ScanStart ELSE ScanStep(Scan(lines, n - 1), lines[n])

\* letter_content after the loop; a key the code never set is Null here
LetterContent(all_text) ==
  LET lines == SplitLines(all_text)
      st == Scan(lines, Len(lines))
  IN  [date |-> st.date,
       salutation |-> st.salutation,
       signature |-> st.signature,
       body |-> IF st.body_lines # <<>>
                THEN JoinWith(<<"\n">>, st.body_lines)
                ELSE Null]

\* len(letter_content)
FieldCount(letter_content) ==
  Cardinality({f \in {"date", "salutation", "signature", "body"} :
                 letter_content[f] # Null})

\* "\n\n".join(page["text"] for page in doc.get("pages", []))
AllText(doc) ==
  JoinWith(<<"\n", "\n">>, [i \in 1..Len(doc.pages) |-> doc.pages[i].text])

\* the test `if not analysis or not analysis.get("likely_correspondence")`
Skipped_OnlyUnanalysed(doc) ==
  doc.analysis = NoAnalysis
Skipped(doc) ==
  doc.analysis = NoAnalysis \/ ~doc.analysis.likely_correspondence

\* the test `if len(letter_content) >= 2`
HasStructure_AnyField(letter_content) ==
  FieldCount(letter_content) >= 1
HasStructure(letter_content) ==
  FieldCount(letter_content) >= MIN_LETTER_FIELDS

\* the entry extract_letter_content appends for one document
Letter(doc) ==
  [archive |-> doc.archive,
   reference |-> doc.reference,
   title |-> doc.title,
   date |-> doc.date,
   extracted_content |-> LetterContent(AllText(doc)),
   relevance_score |-> doc.analysis.relevance_score,
   full_text |-> AllText(doc)]

\* the positions in ocr_results of the documents that give an entry, in
\* the order of the loop
RECURSIVE Extracted(_, _)
Extracted(results, n) ==
  IF n = 0 THEN <<>>
  ELSE IF ~Skipped(results[n])
          /\ HasStructure(LetterContent(AllText(results[n])))
       THEN Append(Extracted(results, n - 1), n)
       ELSE Extracted(results, n - 1)

\* list.sort(key=..., reverse=True) written as reversed(sorted(...)), which
\* turns the order of equal keys around
SortDescending_ThenReversed(keys) ==
  LET up == SortedBy(Len(keys), keys)
  IN  [k \in 1..Len(up) |-> up[Len(up) + 1 - k]]
\* list.sort(key=..., reverse=True): descending, equal keys keep their
\* order; the positions 1..Len(keys) in sorted order
SortDescending(keys) ==
  SortedBy(Len(keys), [k \in 1..Len(keys) |-> 0 - keys[k]])

extract_letter_content(results) ==
  LET found == Extracted(results, Len(results))
      letters == [k \in 1..Len(found) |-> Letter(results[found[k]])]
      order == SortDescending([k \in 1..Len(letters) |->
                                 letters[k].relevance_score])
  IN  [k \in 1..Len(order) |-> letters[order[k]]]

(***************************************************************************)
(* The lines OCR reads in the model, and the page texts made of them       *)
(***************************************************************************)
L_Date == <<"1", "2", " ", "N", "o", "v", "e", "m", "b", "e", "r", " ", "1", "9", "4", "6">>
L_Dear == <<" ", " ", "D", "e", "a", "r", " ", "W", "i", "n", "s", "t", "o", "n", ",">>
L_Yours == <<"Y", "o", "u", "r", "s", " ", "s", "i", "n", "c", "e", "r", "e", "l", "y", ",", " ">>
L_Bryan == <<"B", "r", "y", "a", "n">>
\* a second line of each kind the scan looks for, different from the first:
\* a date, a salutation and a closing
L_Date2 == <<"3", " ", "M", "a", "y", " ", "1", "9", "5", "0">>
L_Dear2 == <<"D", "e", "a", "r", " ", "B", "r", "y", "a", "n">>
L_Sincerely == <<"S", "i", "n", "c", "e", "r", "e", "l", "y">>
SecondLines == {L_Date2, L_Dear2, L_Sincerely}
Lines == {L_Date, L_Dear, L_Yours, L_Bryan}

\* the pages of at most n lines: every page made of the four first lines,
\* repeated at will, and every page on which each of the seven lines stands
\* at most once
PageTexts(n) ==
  {JoinWith(<<"\n">>, lines) :
     lines \in SeqUpTo(Lines, n) \cup
               {s \in SeqUpTo(Lines \cup SecondLines, n) :
                  \A a, b \in 1..Len(s) : s[a] = s[b] => a = b}}

\* a letter with a date in range (score 50), a letter without a date
\* (score 20), a letter without a Fairfax word (score 40, not likely)
X_NoFairfax == JoinWith(<<"\n">>, <<L_Date, L_Dear, L_Yours>>)
SampleTexts ==
  {JoinWith(<<"\n">>, <<L_Date, L_Dear, L_Bryan, L_Yours>>),
   JoinWith(<<"\n">>, <<L_Dear, L_Bryan, L_Yours>>),
   X_NoFairfax}

\* what OCR reads in a run of execute_full_search: a salutation, a closing,
\* a Churchill word and a Fairfax word
PipelineTexts ==
  {<<"D", "e", "a", "r", " ", "W", "i", "n", "s", "t", "o", "n", "\n",
    "Y", "o", "u", "r", "s", " ", "B", "r", "y", "a", "n">>}

\* process_ocr, with what process_image returns for each image
ProcessOcr(reads) ==
  /\ pc = "process_ocr"
  /\ ocr_results' = process_ocr(downloaded_docs, reads)
  /\ pc' = "extract_letter_content"
  /\ UNCHANGED <<clientVars, search_results, qi, max_docs, prioritized_results,
                 ri, ii, images_downloaded, download_count, downloaded_docs,
                 entry, status, text, analysis, potential_letters>>

\* extract_letter_content and, in execute_full_search, the status of the
\* result that is returned
ExtractLetterContent ==
  /\ pc = "extract_letter_content"
  /\ potential_letters' = extract_letter_content(ocr_results)
  /\ pc' = "done"
  /\ status' = IF entry = "execute_full_search"
               THEN IF potential_letters' # <<>> THEN "success" ELSE "partial"
               ELSE status
  /\ UNCHANGED <<clientVars, search_results, qi, max_docs, prioritized_results,
                 ri, ii, images_downloaded, download_count, downloaded_docs,
                 entry, text, analysis, ocr_results>>

NextAgent ==
  \/ SearchChurchillArchives
  \/ SearchCanadianArchives
  \/ DownloadDocumentsBegin
  \/ DownloadLoopHead
  \/ DownloadImage

Spec == InitAgent /\ [][NextAgent]_vars

(***************************************************************************)
(* execute_full_search to its end: the searches, download_documents, then  *)
(* process_ocr and extract_letter_content                                  *)
(***************************************************************************)
InitFull ==
  /\ InitAgent
  /\ entry = "execute_full_search"

\* what process_image returns in a run of execute_full_search: every image
\* of the run reads the same, the marker, nothing, or the short letter
FullOutcomes(paths) ==
  {[p \in paths |-> t] : t \in {S_OcrUnavailable, S_Empty} \cup PipelineTexts}

ProcessOcrFull ==
  /\ pc = "process_ocr"
  /\ \E reads \in FullOutcomes(ImagePaths(downloaded_docs)) : ProcessOcr(reads)

NextFull ==
  \/ SearchChurchillArchives
  \/ SearchCanadianArchives
  \/ DownloadDocumentsBegin
  \/ DownloadLoopHead
  \/ DownloadImage
  \/ ProcessOcrFull
  \/ ExtractLetterContent

SpecFull == InitFull /\ [][NextFull]_vars

\* where a run of execute_full_search is: the statement and the counters of
\* the loops around it; every step of NextFull changes it
Position == <<pc, qi, ri, ii>>

\* the run leaves its position, which it can do unless it has ended: a loop
\* counter moves by one or starts again, or another statement is reached
MovesOn ==
  /\ pc # "done"
  /\ pc' \in {"search_canadian_archives", "download_documents", "download_loop",
              "download_images", "process_ocr", "extract_letter_content", "done"}
  /\ qi' \in 0..(qi + 1)
  /\ ri' \in 0..(ri + 1)
  /\ ii' \in 0..(ii + 1)

\* execute_full_search is sequential code on one thread: a run that has not
\* ended takes its next step (every request is taken to end, in a response
\* or in an exception). The steps are those of NextFull; fairness is stated
\* on the position they change.
SpecFullFair == InitFull /\ [][NextFull]_vars /\ WF_Position(MovesOn)

(***************************************************************************)
(* process_ocr and extract_letter_content on their own: one document with  *)
(* any page of a few lines, or several documents with the sample letters   *)
(***************************************************************************)
OcrReferences == <<S_CHAR_slash_1, S_MG30, S_Unknown>>

\* the k-th downloaded document; the second one has two pages
OcrDoc(k) ==
  LET result == [archive |-> ARCHIVES[((k - 1) % 3) + 1].name,
                 reference |-> OcrReferences[(((k - 1) \div 3) % 3) + 1]]
  IN  [archive |-> result.archive,
       reference |-> result.reference,
       title |-> "Letter",
       date |-> S_3Nov1946,
       images |-> IF k = 2
                  THEN <<OutputPath(result, 0), OutputPath(result, 1)>>
                  ELSE <<OutputPath(result, 0)>>]

InitExtract ==
  /\ InitClientVars
  /\ search_results = <<>>
  /\ pc = "process_ocr"
  /\ qi = 0
  /\ entry = "direct"
  /\ max_docs = 0
  /\ prioritized_results = <<>>
  /\ ri = 0
  /\ ii = 0
  /\ images_downloaded = <<>>
  /\ download_count = 0
  /\ downloaded_docs \in {[k \in 1..n |-> OcrDoc(k)] : n \in 1..MaxOcrDocs}
  /\ status = None
  /\ IdleOcrVars

\* process_ocr on the downloaded documents, whatever OCR reads: any page for
\* a single document, the sample letters for several documents
ProcessOcrExtract ==
  /\ pc = "process_ocr"
  /\ \E reads \in OcrOutcomes(ImagePaths(downloaded_docs),
                              IF Len(downloaded_docs) = 1
                              THEN PageTexts(MaxLines) ELSE SampleTexts) :
       ProcessOcr(reads)

NextExtract ==
  \/ ProcessOcrExtract
  \/ ExtractLetterContent

SpecExtract == InitExtract /\ [][NextExtract]_vars

(***************************************************************************)
(* Properties of process_ocr and extract_letter_content                    *)
(***************************************************************************)
\* extract_letter_content has returned the letters of ocr_results
LettersReturned == pc = "done" /\ ocr_results # <<>>

\* the letter was made from the document
FromDoc(letter, doc) ==
  letter.archive = doc.archive /\ letter.reference = doc.reference

\* some returned letter was made from the document
Appears(doc) ==
  \E a \in 1..Len(potential_letters) : FromDoc(potential_letters[a], doc)

\* the lines of the document's text, stripped, without the blank ones
NonBlankLines(doc) ==
  LET lines == SplitLines(AllText(doc))
      NonBlank(line) == line # <<>>
  IN  SelectSeq([i \in 1..Len(lines) |-> Strip(lines[i])], NonBlank)

IsDateLine(line) == Search(P_line_date, line)
IsDearLine(line) == LiteralAt(S_Dear, line, 0)
IsClosingLine(line) == Contains(S_Yours, line) \/ Contains(S_Sincerely, line)
IsOrdinaryLine(line) ==
  ~IsDateLine(line) /\ ~IsDearLine(line) /\ ~IsClosingLine(line)

\* C16: every returned letter comes from a document whose analysis has
\* likely_correspondence true; a document whose combined OCR text matches no
\* Fairfax pattern does not appear in the list.
C16_OnlyLikelyDocuments ==
  LettersReturned =>
    /\ \A a \in 1..Len(potential_letters) :
         \E k \in 1..Len(ocr_results) :
           /\ FromDoc(potential_letters[a], ocr_results[k])
           /\ ocr_results[k].analysis.likely_correspondence
    /\ \A k \in 1..Len(ocr_results) :
         ~AnyMatch(fairfax_patterns, AllText(ocr_results[k]))
           => ~Appears(ocr_results[k])

\* a letter was returned, and a document with a Churchill word, a date in
\* range, a salutation and a signature but no Fairfax word was left out
C16_Witness ==
  /\ LettersReturned
  /\ potential_letters # <<>>
  /\ \E k \in 1..Len(ocr_results) :
       /\ AllText(ocr_results[k]) = X_NoFairfax
       /\ ocr_results[k].analysis.relevance_score = 40
       /\ ~Appears(ocr_results[k])

\* the lines have the shape of C17, with the closing line at position j
LetterShape(lines, j) ==
  /\ Len(lines) >= 4
  /\ lines[1] = L_Date
  /\ IsDearLine(lines[2])
  /\ j \in 4..Len(lines)
  /\ IsClosingLine(lines[j])
  /\ \A i \in 3..(j - 1) : IsOrdinaryLine(lines[i])
  /\ \A i \in (j + 1)..Len(lines) : IsOrdinaryLine(lines[i])

\* C17: for a likely document whose non-blank lines are the date line
\* "12 November 1946", a line starting with "Dear", one or more ordinary
\* lines, a line containing "Yours" or "Sincerely", then ordinary lines,
\* the letter has date = the date line, salutation = the "Dear" line, body =
\* the ordinary lines before the closing joined by newlines, signature = the
\* closing line, and the trailing lines are in no field.
C17_LetterFields ==
  LettersReturned =>
    \A k \in 1..Len(ocr_results) :
      LET doc == ocr_results[k]
          lines == NonBlankLines(doc)
      IN  \A j \in 1..Len(lines) :
            (doc.analysis.likely_correspondence /\ LetterShape(lines, j))
            => \E a \in 1..Len(potential_letters) :
                 /\ FromDoc(potential_letters[a], doc)
                 /\ potential_letters[a].extracted_content =
                      [date |-> lines[1],
                       salutation |-> lines[2],
                       body |-> JoinWith(<<"\n">>, SubSeq(lines, 3, j - 1)),
                       signature |-> lines[j]]

\* a letter of that shape with a trailing line was extracted
C17_Witness ==
  /\ LettersReturned
  /\ Len(ocr_results) = 1
  /\ ocr_results[1].analysis.likely_correspondence
  /\ LET lines == NonBlankLines(ocr_results[1])
     IN  /\ LetterShape(lines, 4)
         /\ Len(lines) = 5
         /\ lines[5] = L_Bryan
  /\ Len(potential_letters) = 1
  /\ potential_letters[1].extracted_content.signature = Strip(L_Yours)

\* the position of the line that becomes the date: the first line the date
\* pattern matches (0: none)
DateLineIndex(lines) ==
  IF \E i \in 1..Len(lines) : IsDateLine(lines[i])
  THEN CHOOSE i \in 1..Len(lines) :
         IsDateLine(lines[i]) /\ \A j \in 1..(i - 1) : ~IsDateLine(lines[j])
  ELSE 0

\* the position of the line that becomes the salutation: the first line
\* starting with "Dear" that did not become the date (0: none)
SalutationIndex(lines) ==
  LET d == DateLineIndex(lines)
      dear == {i \in 1..Len(lines) : i # d /\ IsDearLine(lines[i])}
  IN  IF dear = {} THEN 0 ELSE CHOOSE i \in dear : \A j \in dear : i <= j

\* at least two of date, salutation, signature, body are populated: there
\* is a salutation, and a date or a further line after the salutation
TwoFieldsPopulated(lines) ==
  LET d == DateLineIndex(lines)
      s == SalutationIndex(lines)
  IN  /\ s # 0
      /\ d # 0 \/ \E i \in (s + 1)..Len(lines) : TRUE

\* a line was accumulated in the body: after the salutation, before any
\* closing line, stands a line that is neither the date nor a closing
BodyLineAccumulated(lines) ==
  LET d == DateLineIndex(lines)
      s == SalutationIndex(lines)
  IN  /\ s # 0
      /\ \E i \in (s + 1)..Len(lines) :
           /\ i # d
           /\ ~IsClosingLine(lines[i])
           /\ \A j \in (s + 1)..(i - 1) : j = d \/ ~IsClosingLine(lines[j])

\* C18: a likely document contributes an entry exactly when at least two of
\* date, salutation, signature, body were populated by the scan of its
\* lines; the body is present only when a body line was accumulated.
C18_TwoFieldsNeeded ==
  LettersReturned =>
    \A k \in 1..Len(ocr_results) :
      LET doc == ocr_results[k]
          lines == NonBlankLines(doc)
      IN  doc.analysis.likely_correspondence =>
            /\ Appears(doc) <=> TwoFieldsPopulated(lines)
            /\ \A a \in 1..Len(potential_letters) :
                 FromDoc(potential_letters[a], doc) =>
                   LET content == potential_letters[a].extracted_content
                   IN  /\ FieldCount(content) >= 2
                       /\ content.body # Null <=> BodyLineAccumulated(lines)
                       /\ content.body # Null => Len(content.body) > 0

\* a likely document with a salutation only gave no entry
C18_Witness ==
  /\ LettersReturned
  /\ Len(ocr_results) = 1
  /\ ocr_results[1].analysis.likely_correspondence
  /\ NonBlankLines(ocr_results[1]) = <<L_Bryan, Strip(L_Dear)>>
  /\ potential_letters = <<>>

\* the position in ocr_results of the document the letter was made from
DocIndex(letter) ==
  CHOOSE k \in 1..Len(ocr_results) : FromDoc(letter, ocr_results[k])

\* C19: the returned list is ordered by relevance_score descending, and
\* letters with equal scores keep the order of their documents in
\* ocr_results.
C19_SortedStable ==
  LettersReturned =>
    \A a, b \in 1..Len(potential_letters) :
      a < b =>
        /\ potential_letters[a].relevance_score
             >= potential_letters[b].relevance_score
        /\ potential_letters[a].relevance_score
             = potential_letters[b].relevance_score
           => DocIndex(potential_letters[a]) < DocIndex(potential_letters[b])

\* three letters: the second document's, with the higher score, came first
\* and the other two, with equal scores, kept their order
C19_Witness ==
  /\ LettersReturned
  /\ Len(potential_letters) = 3
  /\ DocIndex(potential_letters[1]) = 2
  /\ DocIndex(potential_letters[2]) = 1
  /\ DocIndex(potential_letters[3]) = 3
  /\ potential_letters[1].relevance_score = 50
  /\ potential_letters[2].relevance_score = 20
  /\ potential_letters[3].relevance_score = 20

(***************************************************************************)
(* Properties of execute_full_search                                       *)
(***************************************************************************)
\* C20: execute_full_search always returns a result whose status is
\* success, partial or failure: failure exactly when the searches left
\* search_results empty, and then nothing was downloaded, recognised or
\* extracted; success exactly when a letter was extracted; partial
\* otherwise.
C20_AlwaysAStatus ==
  (entry = "execute_full_search" /\ pc = "done") =>
    /\ status \in {"success", "partial", "failure"}
    /\ status = "failure" <=> search_results = <<>>
    /\ status = "failure" =>
         /\ last_call.op # "download_document_image"
         /\ prioritized_results = <<>>
         /\ downloaded_docs = <<>>
         /\ ocr_results = <<>>
    /\ status = "success" <=> potential_letters # <<>>

\* C21: in a run of the full pipeline the number of documents downloaded
\* never exceeds the --max-docs value of the command line, whichever value
\* that is (5 when the option is not given).
C21_WithinCommandLineLimit ==
  entry = "execute_full_search" =>
    \A args_max_docs \in ArgsMaxDocs :
      /\ Len(downloaded_docs) <= args_max_docs
      /\ download_count <= args_max_docs

\* C22: in download_document_image the backoff waits lie between attempts:
\* the wait after the k-th failed attempt is 2k seconds and attempt k + 1
\* follows it, so there is one wait less than there are attempts, and a
\* call whose three attempts all fail waits 2 s and 4 s, then returns False.
C22_BackoffBetweenAttempts ==
  last_call.op = "download_document_image" =>
    /\ \A k \in 1..Len(last_call.waits) :
         /\ last_call.waits[k] = k * 2
         /\ k + 1 <= Len(last_call.requests)
         /\ last_call.requests[k + 1]
              = last_call.requests[k] + last_call.waits[k] * TicksPerSecond
    /\ (~last_call.raised /\ last_call.value = FALSE) =>
         /\ last_call.waits = <<2, 4>>
         /\ last_call.end = last_call.requests[3]

\* C23: a call on one client writes that client's last_request_time only,
\* and whether it waits depends on that client's last_request_time only: it
\* starts at once when the client's own interval has passed, however
\* recent the requests made through the other clients are.
C23_LocalRateLimit ==
  [][\A c \in Clients :
       calls'[c] = calls[c] + 1 =>
         /\ \A d \in Clients \ {c} :
              /\ last_request_time'[d] = last_request_time[d]
              /\ last_http'[d] = last_http[d]
              /\ calls'[d] = calls[d]
         /\ last_request_time'[c] =
              IF now - last_request_time[c] >= RATE_LIMIT_DELAY * TicksPerSecond
              THEN now
              ELSE last_request_time[c] + RATE_LIMIT_DELAY * TicksPerSecond]_vars

\* a call on one client started at the very time of the latest request of
\* another client, without waiting
C23_Witness ==
  /\ last_call.op # "none"
  /\ last_call.prev.client # NoClient
  /\ last_call.prev.client # last_call.client
  /\ last_call.requests # <<>>
  /\ last_call.requests[1] = last_http[last_call.prev.client]
  /\ last_request_time[last_call.client] = last_request_time[last_call.prev.client]

\* C24: every item of a successful search response becomes one record of
\* search_results, in response order: the reference is "Unknown" when the
\* item has none, the title "Untitled", the date "" and image_urls []
\* likewise, and a field the item has is copied unchanged.
C24_Normalized ==
  [][(/\ SearchStep
      /\ "results" \in DOMAIN last_call'.input
      /\ "error" \notin DOMAIN last_call'.input) =>
       LET items == last_call'.input.results
           old == Len(search_results)
       IN  /\ Len(search_results') = old + Len(items)
           /\ SubSeq(search_results', 1, old) = search_results
           /\ \A k \in 1..Len(items) :
                LET record == search_results'[old + k]
                    item == items[k]
                    Has(key) == key \in DOMAIN item
                IN  /\ record.reference =
                         IF Has("reference") THEN item.reference
                         ELSE <<"U", "n", "k", "n", "o", "w", "n">>
                    /\ record.title =
                         IF Has("title") THEN item.title ELSE "Untitled"
                    /\ record.date = IF Has("date") THEN item.date ELSE <<>>
                    /\ record.image_urls =
                         IF Has("images") THEN item.images ELSE <<>>]_vars

\* a response of two items was recorded: the first without a reference, the
\* second without title and date, each with its other fields as given
C24_Witness ==
  /\ last_call.op = "search"
  /\ "results" \in DOMAIN last_call.input
  /\ last_call.input.results = <<Item_B, Item_C>>
  /\ Len(search_results) = 2
  /\ search_results[1].reference = S_Unknown
  /\ search_results[1].title = "Note"
  /\ search_results[1].date = S_20Dec1946
  /\ search_results[2].reference = S_CHAR_under_1
  /\ search_results[2].title = "Untitled"
  /\ search_results[2].date = S_Empty
  /\ search_results[2].image_urls = <<"u5">>

\* C25: search_results only grows at its end, and only in the searches:
\* download_documents (whose prioritization sorts a copy), process_ocr and
\* extract_letter_content leave its records and their order as they were.
C25_SearchResultsAppendOnly ==
  [][/\ Len(search_results') >= Len(search_results)
     /\ \A k \in 1..Len(search_results) :
          search_results'[k] = search_results[k]
     /\ pc \notin {"search_churchill_archives", "search_canadian_archives"}
          => search_results' = search_results]_vars

\* a run came to its end with a letter extracted; the prioritization had put
\* the second record before the first, and search_results still holds them
\* in the order of accumulation
C25_Witness ==
  /\ pc = "done"
  /\ potential_letters # <<>>
  /\ prioritized_results = <<2, 1>>
  /\ Len(search_results) = 2
  /\ PriorityKey(search_results[1]) = 1
  /\ PriorityKey(search_results[2]) = 0
  /\ Len(downloaded_docs) = 2

\* the position of the first line starting with "Dear", where the scan goes
\* from SEEKING to IN_BODY (0: none)
FirstDear(lines) ==
  IF \E i \in 1..Len(lines) : IsDearLine(lines[i])
  THEN CHOOSE i \in 1..Len(lines) :
         IsDearLine(lines[i]) /\ \A j \in 1..(i - 1) : ~IsDearLine(lines[j])
  ELSE 0

\* the position of the first closing line after position s, where the scan
\* leaves IN_BODY (one past the end: none)
ClosingAfter(lines, s) ==
  IF \E i \in (s + 1)..Len(lines) : IsClosingLine(lines[i])
  THEN CHOOSE i \in (s + 1)..Len(lines) :
         IsClosingLine(lines[i])
         /\ \A j \in (s + 1)..(i - 1) : ~IsClosingLine(lines[j])
  ELSE Len(lines) + 1

\* C26: in a returned letter the body is made of every non-blank line
\* between the salutation and the closing line (all the lines seen in
\* IN_BODY that contain neither "Sincerely" nor "Yours"), and the date, if
\* there is one, is a line that stands before the salutation (seen in
\* SEEKING).
C26_BodyKeepsEveryLine ==
  LettersReturned =>
    \A a \in 1..Len(potential_letters) :
      LET letter == potential_letters[a]
          lines == NonBlankLines(ocr_results[DocIndex(letter)])
          s == FirstDear(lines)
          c == ClosingAfter(lines, s)
          content == letter.extracted_content
      IN  s # 0 =>
            /\ content.body = IF c > s + 1
                              THEN JoinWith(<<"\n">>, SubSeq(lines, s + 1, c - 1))
                              ELSE Null
            /\ content.date # Null =>
                 \E i \in 1..(s - 1) : lines[i] = content.date

\* page_i.jpg in the folder of the record
PagePath(result, i) ==
  [folder |-> <<result.archive, ReplaceSlash(result.reference)>>, page |-> i]

\* C27: for a record download_documents has selected, every step of the
\* image loop attempts the next URL of the list, whatever the earlier
\* images gave; image i goes to page_i.jpg; the paths collected are those of
\* the images that succeeded, in increasing i, and they are the image list
\* of the document produced.
C27_EveryImageInOrder ==
  [][pc = "download_images" =>
       LET result == CurrentResult
           i == ii + 1
           collected == IF last_call'.value = TRUE
                        THEN Append(images_downloaded, PagePath(result, i))
                        ELSE images_downloaded
       IN  /\ last_call'.op = "download_document_image"
           /\ TotalCalls' = TotalCalls + 1
           /\ \A k \in 1..Len(images_downloaded) :
                /\ images_downloaded[k].page < i
                /\ k > 1 => images_downloaded[k - 1].page < images_downloaded[k].page
           /\ IF i < Len(result.image_urls)
              THEN /\ pc' = "download_images"
                   /\ ii' = i
                   /\ ri' = ri
                   /\ images_downloaded' = collected
              ELSE /\ pc' = "download_loop"
                   /\ ri' = ri + 1
                   /\ IF collected = <<>>
                      THEN downloaded_docs' = downloaded_docs
                      ELSE /\ Len(downloaded_docs') = Len(downloaded_docs) + 1
                           /\ downloaded_docs'[Len(downloaded_docs')].images
                                = collected]_vars

\* C28: any two consecutive HTTP requests of one client, the retry attempts
\* of download_document_image included, lie at least RATE_LIMIT_DELAY
\* apart: the attempts of one call among themselves, and the first request
\* of a call after the last request of the call before it on that client.
C28_RequestSpacing ==
  [][\A c \in Clients :
       (calls'[c] = calls[c] + 1 /\ last_call'.requests # <<>>) =>
         LET requests == last_call'.requests
         IN  /\ \A k \in 1..(Len(requests) - 1) :
                  requests[k + 1] - requests[k] >= RATE_LIMIT_DELAY * TicksPerSecond
             /\ last_http[c] # NoRequest =>
                  requests[1] - last_http[c] >= RATE_LIMIT_DELAY * TicksPerSecond]_vars

\* C29: whatever records the searches accumulated, items with a null date
\* or a null reference included, the steps of download_documents that work
\* on the records (the prioritization, the selection of a record and the
\* naming of its folder) raise nothing.
C29_DownloadDocumentsNeverRaises ==
  [][(pc = "download_documents" \/ pc = "download_loop") =>
       /\ status' # "raised"
       /\ pc' \in {"download_loop", "download_images", "process_ocr", "done"}
       /\ pc = "download_documents" =>
            /\ Len(prioritized_results') = Len(search_results)
            /\ pc' = "download_loop"]_vars

\* the states of the scan: before the first line, then after each line
RECURSIVE ScanTrace(_, _)
ScanTrace(lines, n) ==
  IF n = 0 THEN <<ScanStart>>
  ELSE LET trace == ScanTrace(lines, n - 1)
       IN  Append(trace, ScanStep(trace[n], lines[n]))

\* C30: in the scan of a document's lines, date, salutation and signature
\* are each written at most once: the first qualifying line wins (the date
\* is the first line the date pattern matches, the salutation the first
\* "Dear" line that was not taken as the date) and a field that is set
\* keeps its value to the end of the scan, whatever later lines qualify;
\* in_body goes from false to true at most once, and once the signature is
\* set no line is added to the body.
C30_FieldsWrittenOnce ==
  LettersReturned =>
    \A k \in 1..Len(ocr_results) :
      ~Skipped(ocr_results[k]) =>
        LET lines == SplitLines(AllText(ocr_results[k]))
            stripped == [n \in 1..Len(lines) |-> Strip(lines[n])]
            trace == ScanTrace(lines, Len(lines))
            final == trace[Len(lines) + 1]
            entered == {n \in 1..Len(lines) :
                          ~trace[n].in_body /\ trace[n + 1].in_body}
            First(S) == CHOOSE n \in S : \A m \in S : n <= m
            dates == {n \in 1..Len(lines) : IsDateLine(stripped[n])}
            dears == {n \in 1..Len(lines) :
                        /\ IsDearLine(stripped[n])
                        /\ dates # {} => n # First(dates)}
        IN  /\ \A n \in 1..Len(lines) :
                 LET before == trace[n]
                     after == trace[n + 1]
                 IN  /\ before.date # Null => after.date = before.date
                     /\ before.salutation # Null
                          => after.salutation = before.salutation
                     /\ before.signature # Null
                          => /\ after.signature = before.signature
                             /\ after.body_lines = before.body_lines
                             /\ ~after.in_body
            /\ final.date = IF dates = {} THEN Null ELSE stripped[First(dates)]
            /\ final.salutation
                 = IF dears = {} THEN Null ELSE stripped[First(dears)]
            /\ Cardinality(entered) <= 1

\* a letter was returned from a page on which a second, different date line
\* and a second, different "Dear" line follow the first ones: the date and
\* the salutation kept the first lines, and the later ones went to the body
C30_Witness ==
  /\ LettersReturned
  /\ Len(ocr_results) = 1
  /\ NonBlankLines(ocr_results[1])
       = <<L_Date, Strip(L_Dear), L_Date2, L_Dear2, L_Sincerely>>
  /\ L_Date2 # L_Date /\ IsDateLine(L_Date2)
  /\ L_Dear2 # Strip(L_Dear) /\ IsDearLine(L_Dear2)
  /\ Len(potential_letters) = 1
  /\ potential_letters[1].extracted_content
       = [date |-> L_Date, salutation |-> Strip(L_Dear),
          signature |-> L_Sincerely,
          body |-> JoinWith(<<"\n">>, <<L_Date2, L_Dear2>>)]

\* C31: the pipeline terminates: no download_document_image call makes more
\* than 3 attempts, the loop of download_documents passes each accumulated
\* record at most once, and execute_full_search eventually returns a
\* result (with status success, partial or failure).
C31_Terminates ==
  /\ [](last_call.op = "download_document_image"
          => Len(last_call.requests) <= 3)
  /\ [](pc \in {"download_loop", "download_images"} =>
          /\ Visited <= Len(search_results)
          /\ \A a, b \in 1..Len(prioritized_results) :
               prioritized_results[a] = prioritized_results[b] => a = b)
  /\ [][ri' # ri => (ri' = ri + 1 \/ pc = "download_documents")]_vars
  /\ <>(pc = "done" /\ status \in {"success", "partial", "failure"})

====
